---- MODULE Spec2Model ----
(***************************************************************************)
(* Model of src/main.py (API du Centre Solea): the event extraction        *)
(* pipeline behind /infos-tablao (parse and deduplicate, temporal filter,  *)
(* sort, detail-page enrichment), the error paths of /infos-tablao and     *)
(* /infos-stage-solea, and the date parse/format helpers.                  *)
(*                                                                         *)
(* Representation of text.  A decimal numeral is the sequence of its       *)
(* digits (<<0,9>> is "09").  A date string is a record                    *)
(*   [sep, d, m, mon, y]: "12/10/2025" is sep "/", d <<1,2>>, m <<1,0>>,   *)
(*   y <<2,0,2,5>>; "12 oct. 2025" is sep " ", mon "oct.", m <<>>.         *)
(* A time string "20h30" is <<20, <<3,0>>>>, "20h" is <<20, <<>>>> and the *)
(* empty string is <<>>.  Running text (titles, context windows) is a      *)
(* sequence of tokens [w, h, mn]: a word or punctuation mark has h = <<>>, *)
(* a time written in the text has w = "".                                  *)
(***************************************************************************)
EXTENDS Integers, Sequences, FiniteSets, TLC

VARIABLES
    pc,              \* position of the request handler
    endpoint,        \* route being served: "tablao" or "stage"
    today,           \* datetime.now(tz).date() as <<y, m, d>>; the clock stays
                     \* on one day while the request is served
    all_dates,       \* request arg all_dates == "true"
    only,            \* request arg only
    deep,            \* request arg deep == "1"
    deep_limit,      \* request arg limit
    links,           \* _find_tablao_detail_links(home_soup): URLs in order
    processed,       \* matches of pat.finditer consumed so far
    items,           \* parse_evenements_robuste: out, then infos_tablao: items
    seen,            \* parse_evenements_robuste: seen
    next_items,      \* infos_tablao: next_items (events carrying _pydate)
    entry,           \* the list handed to enrich_tablao_hours_from_details
    candidate_links, \* enrich: candidate_links
    visited,         \* enrich: outcome of each _fetch_soup, in fetch order
    detail_pairs,    \* enrich: detail_pairs
    rule,            \* enrich: per event, the branch that set matched
    fail,            \* exception raised by a primary fetch, "none" if none
    resp,            \* the HTTP response
    dinput,          \* date helpers: the string given to _parse_date_str
    dparsed,         \* date helpers: the triple returned by _parse_date_str
    dout,            \* date helpers: the string returned by _fmt_ddmmyyyy
    dpc              \* date helpers: position

vars == <<pc, endpoint, today, all_dates, only, deep, deep_limit, links,
          processed, items, seen, next_items, entry, candidate_links,
          visited, detail_pairs, rule, fail, resp,
          dinput, dparsed, dout, dpc>>

(***************************************************************************)
(* Bounds                                                                  *)
(***************************************************************************)
MaxMatches == 3      \* event matches found in the home page text
MaxLinks == 2        \* detail links found in the home page

(***************************************************************************)
(* Numerals                                                                *)
(***************************************************************************)
RECURSIVE DigitsToInt(_)
DigitsToInt(s) ==
    IF s = <<>> THEN 0
    ELSE DigitsToInt(SubSeq(s, 1, Len(s) - 1)) * 10 + s[Len(s)]

RECURSIVE IntToDigits(_)
IntToDigits(n) ==
    IF n < 10 THEN <<n>> ELSE IntToDigits(n \div 10) \o <<n % 10>>

Pad(n, w) ==
    LET ds == IntToDigits(n)
    IN  IF Len(ds) >= w THEN ds
        ELSE [i \in 1..(w - Len(ds)) |-> 0] \o ds

(***************************************************************************)
(* Dates                                                                   *)
(***************************************************************************)
NoYear == -1         \* Python None in the year position
NoMatch == <<>>      \* Python None returned instead of a tuple or a date

NumDate(d, m, y, sep) == [sep |-> sep, d |-> d, m |-> m, mon |-> "", y |-> y]
TxtDate(d, mon, y) == [sep |-> " ", d |-> d, m |-> <<>>, mon |-> mon, y |-> y]
\* the falsy results None and "" of the date formatting code
NoDate == [sep |-> "", d |-> <<>>, m |-> <<>>, mon |-> "", y |-> <<>>]

MONTHS_FR ==
    [n \in {"janvier", "février", "fevrier", "mars", "avril", "mai", "juin",
            "juillet", "août", "aout", "septembre", "octobre", "novembre",
            "décembre", "decembre", "janv", "févr", "fevr", "sept", "oct",
            "nov", "déc", "dec", "janv.", "févr.", "fevr.", "sept.", "oct.",
            "nov.", "déc.", "dec."} |->
        CASE n \in {"janvier", "janv", "janv."} -> 1
          [] n \in {"février", "fevrier", "févr", "fevr", "févr.", "fevr."} -> 2
          [] n = "mars" -> 3
          [] n = "avril" -> 4
          [] n = "mai" -> 5
          [] n = "juin" -> 6
          [] n = "juillet" -> 7
          [] n \in {"août", "aout"} -> 8
          [] n \in {"septembre", "sept", "sept."} -> 9
          [] n \in {"octobre", "oct", "oct."} -> 10
          [] n \in {"novembre", "nov", "nov."} -> 11
          [] OTHER -> 12]

\* _parse_date_str on a numeric string: 1-2 digit day and month, and a year
\* group that only matches when it has 2 to 4 digits.
ParseNumeric(s) ==
    LET d == DigitsToInt(s.d)
        mth == DigitsToInt(s.m)
        y0 == IF Len(s.y) \in 2..4 THEN DigitsToInt(s.y) ELSE NoYear
        y == IF y0 # NoYear /\ y0 < 100 THEN y0 + 2000 ELSE y0
    IN  <<y, mth, d>>

\* _parse_date_str on "D month [YYYY]": the month is looked up in MONTHS_FR.
ParseTextual(s) ==
    IF s.mon \in DOMAIN MONTHS_FR
    THEN <<IF Len(s.y) = 4 THEN DigitsToInt(s.y) ELSE NoYear,
           MONTHS_FR[s.mon], DigitsToInt(s.d)>>
    ELSE NoMatch

_parse_date_str(s) ==
    IF s.sep \in {"/", "-", "."} /\ Len(s.d) \in 1..2 /\ Len(s.m) \in 1..2
    THEN ParseNumeric(s)
    ELSE IF s.sep = " " /\ Len(s.d) \in 1..2
    THEN ParseTextual(s)
    ELSE NoMatch

_fmt_ddmmyyyy(y, m, d) ==
    IF y # NoYear /\ y # 0 /\ m # 0 /\ d # 0
    THEN NumDate(Pad(d, 2), Pad(m, 2), Pad(y, 4), "/")
    ELSE IF m # 0 /\ d # 0
    THEN NumDate(Pad(d, 2), Pad(m, 2), <<>>, "/")
    ELSE NoDate

\* datetime.date(y, m, d) accepts exactly the proleptic Gregorian dates of the
\* years 1..9999 and raises ValueError otherwise.
IsLeap(y) == (y % 4 = 0) /\ ((y % 100 # 0) \/ (y % 400 = 0))

DaysInMonth(y, m) ==
    IF m = 2 THEN (IF IsLeap(y) THEN 29 ELSE 28)
    ELSE IF m \in {4, 6, 9, 11} THEN 30 ELSE 31

IsRealDate(y, m, d) ==
    /\ y \in 1..9999
    /\ m \in 1..12
    /\ d \in 1..DaysInMonth(y, m)

_infer_date_to_pydate_nocheck(y, m, d, now) ==
    IF m = 0 \/ d = 0 THEN NoMatch
    ELSE <<IF y = NoYear THEN now[1] ELSE y, m, d>>

_infer_date_to_pydate(y, m, d, now) ==
    IF m = 0 \/ d = 0 THEN NoMatch
    ELSE LET yy == IF y = NoYear THEN now[1] ELSE y
         IN  IF IsRealDate(yy, m, d) THEN <<yy, m, d>> ELSE NoMatch

\* date.__ge__ / date.__le__: order on <<y, m, d>>
DateLE(a, b) ==
    \/ a[1] < b[1]
    \/ a[1] = b[1] /\ a[2] < b[2]
    \/ a[1] = b[1] /\ a[2] = b[2] /\ a[3] <= b[3]

_is_future_or_today_strict(pydate, now) == DateLE(now, pydate) /\ pydate # now

_is_future_or_today(pydate, now) == DateLE(now, pydate)

(***************************************************************************)
(* Times                                                                   *)
(***************************************************************************)
NoTime == <<>>       \* the empty heure string

\* f"{int(h)}h{mn}" if mn else f"{int(h)}h": the hour is re-rendered from its
\* integer value, the minutes are copied as written.
FmtHeure(h, mn) == IF h = <<>> THEN NoTime ELSE <<DigitsToInt(h), mn>>

RECURSIVE Uniq(_)
\* list(dict.fromkeys(xs)) and the seen/uniq loops: first occurrences, in order
Uniq(xs) ==
    IF xs = <<>> THEN <<>>
    ELSE LET init == Uniq(SubSeq(xs, 1, Len(xs) - 1))
             x == xs[Len(xs)]
         IN  IF \E i \in 1..Len(init) : init[i] = x THEN init
             ELSE Append(init, x)

\* _extract_times_from_text on a text whose H_RE matches are ts, in order
_extract_times_from_text(ts) ==
    Uniq([i \in 1..Len(ts) |-> FmtHeure(ts[i].h, ts[i].mn)])

(***************************************************************************)
(* Running text                                                            *)
(***************************************************************************)
W(s) == [w |-> s, h |-> <<>>, mn |-> <<>>]
T(h, mn) == [w |-> "", h |-> h, mn |-> mn]
NL == W("\n")

\* characters removed by _clean_title's strip(" \n\t-,:;") when they stand
\* alone as a token
StripSet == {W("-"), W(","), W(":"), W(";"), NL}
\* characters excluded from the capture group of ART_RE and LIEU_RE
Boundary == {W("-"), W(":"), W(","), W("("), W(")"), NL}
Preps == {W("à"), W("au"), W("aux"), W("chez")}

RECURSIVE LStrip(_)
LStrip(t) ==
    IF t = <<>> THEN <<>>
    ELSE IF t[1] \in StripSet THEN LStrip(Tail(t)) ELSE t

RECURSIVE RStrip(_)
RStrip(t) ==
    IF t = <<>> THEN <<>>
    ELSE IF t[Len(t)] \in StripSet THEN RStrip(SubSeq(t, 1, Len(t) - 1)) ELSE t

\* _clean_title: strip surrounding punctuation; normalize_text and the
\* 240-character cut leave a short, already normalised token list as it is
_clean_title(t) == RStrip(LStrip(t))

Lower(tok) == IF tok = W("Tablao") THEN W("tablao") ELSE tok

Blob(title, context) == title \o <<NL>> \o context

_classify_type(title, context) ==
    LET blob == Blob(title, context)
    IN  IF \E i \in 1..Len(blob) : Lower(blob[i]) = W("tablao")
        THEN "tablao" ELSE "evenement"

RECURSIVE TakeUntilBoundary(_)
\* the greedy capture [^-:,()\n]+ starting at the head of t
TakeUntilBoundary(t) ==
    IF t = <<>> \/ t[1] \in Boundary THEN <<>>
    ELSE <<t[1]>> \o TakeUntilBoundary(Tail(t))

\* re.search of (keyword)\s+([^-:,()\n]+): the capture after the first keyword
\* that is followed by at least one capturable token, <<>> if there is none
CaptureAfter(blob, keys) ==
    LET hits == {i \in 1..(Len(blob) - 1) :
                    blob[i] \in keys /\ blob[i + 1] \notin Boundary}
    IN  IF hits = {} THEN <<>>
        ELSE LET i == CHOOSE k \in hits : \A j \in hits : k <= j
             IN  TakeUntilBoundary(SubSeq(blob, i + 1, Len(blob)))

IsTimeShaped(t) == Len(t) = 1 /\ t[1].h # <<>>

_extract_artist_and_place(title, context, typ) ==
    LET blob == Blob(title, context)
        a0 == _clean_title(CaptureAfter(blob, {W("avec")}))
        lieu == _clean_title(CaptureAfter(blob, Preps))
        artiste == IF typ = "tablao" /\ a0 = <<>> THEN title ELSE a0
    IN  [artiste |-> artiste, lieu |-> lieu]

(***************************************************************************)
(* parse_evenements_robuste                                                *)
(***************************************************************************)
\* One match of pat: the date text, the optional connector, the optional
\* time (h, mn), the optional title after a separator, and the text within
\* 140 characters before and after the match.
MatchText(m) ==
    <<W("date")>> \o m.conn
        \o (IF m.h = <<>> THEN <<>> ELSE <<T(m.h, m.mn)>>)
        \o (IF m.title = <<>> THEN <<>> ELSE <<m.sep>> \o m.title)

Context(m) == m.before \o MatchText(m) \o m.after

\* lines 264-281 and 288-295: the event built from one match
MakeEvent(m) ==
    LET titre == _clean_title(m.title)
        ctx == Context(m)
        ymd == _parse_date_str(m.date)
        fmt == IF ymd # NoMatch THEN _fmt_ddmmyyyy(ymd[1], ymd[2], ymd[3])
               ELSE NoDate
        date_fmt == IF fmt # NoDate THEN fmt ELSE m.date
        ev_type == _classify_type(titre, ctx)
        al == _extract_artist_and_place(titre, ctx, ev_type)
    IN  [date |-> date_fmt, heure |-> FmtHeure(m.h, m.mn), titre |-> titre,
         type |-> ev_type, artiste |-> al.artiste, lieu |-> al.lieu]

EventKey_nohour(ev) ==
    <<ev.date, NoTime, ev.titre, ev.type, ev.artiste, ev.lieu>>

\* line 283: key
EventKey(ev) ==
    <<ev.date, ev.heure, ev.titre, ev.type, ev.artiste, ev.lieu>>

\* lines 284-295: one turn of the loop over the matches
DedupStep(out, sn, ev) ==
    IF EventKey(ev) \in sn THEN [out |-> out, seen |-> sn]
    ELSE [out |-> Append(out, ev), seen |-> sn \cup {EventKey(ev)}]

(***************************************************************************)
(* infos_tablao: steps 2 to 4                                              *)
(***************************************************************************)
WithPydate(it, p) ==
    [date |-> it.date, heure |-> it.heure, titre |-> it.titre,
     type |-> it.type, artiste |-> it.artiste, lieu |-> it.lieu, pydate |-> p]

StripPydate(it) ==
    [date |-> it.date, heure |-> it.heure, titre |-> it.titre,
     type |-> it.type, artiste |-> it.artiste, lieu |-> it.lieu]

\* lines 443-444
OnlyFilter(its, onl) ==
    IF onl = "tablao" THEN SelectSeq(its, LAMBDA it : it.type = "tablao")
    ELSE its

\* lines 449-455: the date an event resolves to, NoMatch if it has none
ResolveDate(it, now) ==
    LET ymd == _parse_date_str(it.date)
    IN  IF ymd = NoMatch THEN NoMatch
        ELSE _infer_date_to_pydate(ymd[1], ymd[2], ymd[3], now)

\* lines 447-457
DateFilter(its, all, now) ==
    SelectSeq([i \in 1..Len(its) |-> WithPydate(its[i], ResolveDate(its[i], now))],
              LAMBDA it : /\ it.pydate # NoMatch
                          /\ (all \/ _is_future_or_today(it.pydate, now)))

\* position at which a stable sort places x in the sorted list s
InsertPos(s, x) ==
    Cardinality({i \in 1..Len(s) : DateLE(s[i].pydate, x.pydate)})

RECURSIVE SortByDate(_)
\* line 460: list.sort(key=_pydate), a stable sort
SortByDate(xs) ==
    IF xs = <<>> THEN <<>>
    ELSE LET s == SortByDate(SubSeq(xs, 1, Len(xs) - 1))
             x == xs[Len(xs)]
             k == InsertPos(s, x)
         IN  SubSeq(s, 1, k) \o <<x>> \o SubSeq(s, k + 1, Len(s))

(***************************************************************************)
(* enrich_tablao_hours_from_details                                        *)
(***************************************************************************)
_ddmmyyyy_as_tuple(s) ==
    IF s.sep = "/" /\ Len(s.d) = 2 /\ Len(s.m) = 2 /\ Len(s.y) \in {0, 4}
    THEN <<IF s.y = <<>> THEN NoYear ELSE DigitsToInt(s.y),
           DigitsToInt(s.m), DigitsToInt(s.d)>>
    ELSE NoMatch

_same_calendar_day(d1, d2) ==
    LET t1 == _ddmmyyyy_as_tuple(d1)
        t2 == _ddmmyyyy_as_tuple(d2)
    IN  /\ t1 # NoMatch
        /\ t2 # NoMatch
        /\ t1[2] = t2[2]
        /\ t1[3] = t2[3]
        /\ (t1[1] = t2[1] \/ t1[1] = NoYear \/ t2[1] = NoYear)

\* line 332
Needs(its) == SelectSeq(its, LAMBDA t : t.type = "tablao" /\ t.heure = NoTime)

CandidateLinks_all(lks, limit) == lks

\* line 336: links[:max(0, limit_pages)]
CandidateLinks(lks, limit) ==
    LET n == IF limit < 0 THEN 0 ELSE limit
    IN  SubSeq(lks, 1, IF n < Len(lks) THEN n ELSE Len(lks))

\* lines 345-352: the dates of a page that parse and format, first occurrences
DatesFound(page) ==
    LET fmts == [i \in 1..Len(page.dates) |->
                    LET ymd == _parse_date_str(page.dates[i])
                    IN  IF ymd = NoMatch THEN NoDate
                        ELSE _fmt_ddmmyyyy(ymd[1], ymd[2], ymd[3])]
    IN  Uniq(SelectSeq(fmts, LAMBDA f : f # NoDate))

\* line 353
TimesFound(page) == _extract_times_from_text(page.times)

PairsOfPage_single(dates_found, times_found) ==
    IF dates_found = <<>> /\ times_found # <<>> THEN << <<NoDate, times_found>> >>
    ELSE IF Len(dates_found) = 1 THEN << <<dates_found[1], times_found>> >>
    ELSE <<>>

\* lines 354-358: the pairs one fetched page adds to detail_pairs
PairsOfPage(dates_found, times_found) ==
    IF dates_found = <<>> /\ times_found # <<>> THEN << <<NoDate, times_found>> >>
    ELSE [i \in 1..Len(dates_found) |-> <<dates_found[i], times_found>>]

AfterFetch_reset(pairs, page) ==
    IF page.ok THEN pairs \o PairsOfPage(DatesFound(page), TimesFound(page))
    ELSE <<>>

\* lines 342-360: detail_pairs after the fetch of one URL; a fetch that
\* raises is caught and the loop moves on to the next URL
AfterFetch(pairs, page) ==
    IF page.ok THEN pairs \o PairsOfPage(DatesFound(page), TimesFound(page))
    ELSE pairs

\* lines 366-370: the time of the first pair matching the event's date
MatchByDate(d, pairs) ==
    LET hits == {i \in 1..Len(pairs) :
                    /\ pairs[i][1] # NoDate
                    /\ _same_calendar_day(d, pairs[i][1])
                    /\ pairs[i][2] # <<>>}
    IN  IF hits = {} THEN NoTime
        ELSE pairs[CHOOSE k \in hits : \A j \in hits : k <= j][2][1]

RECURSIVE Flat(_)
\* line 372
Flat(pairs) ==
    IF pairs = <<>> THEN <<>> ELSE pairs[1][2] \o Flat(Tail(pairs))

FallbackTime_first(pairs) ==
    LET uniq == Uniq(Flat(pairs))
    IN  IF Len(uniq) >= 1 THEN uniq[1] ELSE NoTime

\* lines 372-375
FallbackTime(pairs) ==
    LET uniq == Uniq(Flat(pairs))
    IN  IF Len(uniq) = 1 THEN uniq[1] ELSE NoTime

EnrichOne_anytype(t, pairs) ==
    IF t.heure # NoTime THEN [heure |-> t.heure, rule |-> "skip"]
    ELSE LET byDate == MatchByDate(t.date, pairs)
             fb == FallbackTime(pairs)
         IN  IF byDate # NoTime THEN [heure |-> byDate, rule |-> "date"]
             ELSE IF fb # NoTime THEN [heure |-> fb, rule |-> "fallback"]
             ELSE [heure |-> t.heure, rule |-> "none"]

\* lines 363-377: the heure one event ends with, and the branch that set it
EnrichOne(t, pairs) ==
    IF t.type # "tablao" \/ t.heure # NoTime
    THEN [heure |-> t.heure, rule |-> "skip"]
    ELSE LET byDate == MatchByDate(t.date, pairs)
             fb == FallbackTime(pairs)
         IN  IF byDate # NoTime THEN [heure |-> byDate, rule |-> "date"]
             ELSE IF fb # NoTime THEN [heure |-> fb, rule |-> "fallback"]
             ELSE [heure |-> t.heure, rule |-> "none"]

\* lines 362-378 over the whole list
EnrichAll(its, pairs) ==
    [i \in 1..Len(its) |->
        [its[i] EXCEPT !.heure = EnrichOne(its[i], pairs).heure]]

(***************************************************************************)
(* Responses                                                               *)
(***************************************************************************)
Exceptions == {"Timeout", "ConnectionError", "HTTPError"}

\* str(e)
StrOf(e) ==
    CASE e = "Timeout" -> "read timed out"
      [] e = "ConnectionError" -> "connection failed"
      [] OTHER -> "bad status"

\* the except clauses of infos_tablao (lines 487-488) and of
\* infos_stage_solea (lines 513-516)
ErrorResponse(ep, e) ==
    IF ep = "stage" /\ e = "Timeout"
    THEN [status |-> 504, keys |-> {"erreur"}, evenements |-> <<>>,
          erreur |-> "Timeout lors de la récupération des pages sources."]
    ELSE [status |-> 500, keys |-> {"erreur"}, evenements |-> <<>>,
          erreur |-> StrOf(e)]

\* lines 467-486
TablaoResponse(its) ==
    [status |-> 200,
     keys |-> {"source", "deep_followed", "all_dates", "only", "evenements",
               "evenements_vocal", "prix_tablao"},
     evenements |-> [i \in 1..Len(its) |-> StripPydate(its[i])],
     erreur |-> ""]

\* parse_stage_text_robuste (lines 534-561) over the matches found in the
\* blocks that mention a stage: events keyed by (date, heure, titre)
ParseStages(ms) ==
    Uniq([i \in 1..Len(ms) |->
            LET ymd == _parse_date_str(ms[i].date)
                fmt == IF ymd # NoMatch
                       THEN _fmt_ddmmyyyy(ymd[1], ymd[2], ymd[3]) ELSE NoDate
            IN  [date |-> IF fmt # NoDate THEN fmt ELSE ms[i].date,
                 heure |-> FmtHeure(ms[i].h, ms[i].mn),
                 titre |-> _clean_title(ms[i].title),
                 tag |-> "stage"]])

\* lines 502-512
StageResponse(stages) ==
    [status |-> 200,
     keys |-> IF stages = <<>> THEN {"source", "stages", "message"}
              ELSE {"source", "stages", "stages_vocal"},
     evenements |-> stages,
     erreur |-> ""]

NoResponse == [status |-> 0, keys |-> {}, evenements |-> <<>>, erreur |-> ""]

(***************************************************************************)
(* Inputs                                                                  *)
(***************************************************************************)
Todays == {<<2025, 10, 12>>, <<2024, 2, 29>>}

\* the query strings served: all_dates, only, deep, limit
Requests ==
    {[all_dates |-> FALSE, only |-> "", deep |-> FALSE, limit |-> 4],
     [all_dates |-> TRUE, only |-> "", deep |-> TRUE, limit |-> 4],
     [all_dates |-> FALSE, only |-> "tablao", deep |-> TRUE, limit |-> 1],
     [all_dates |-> FALSE, only |-> "", deep |-> TRUE, limit |-> 0],
     [all_dates |-> TRUE, only |-> "tablao", deep |-> TRUE, limit |-> -1],
     [all_dates |-> FALSE, only |-> "", deep |-> TRUE, limit |-> 4]}

DefaultRequest == [all_dates |-> FALSE, only |-> "", deep |-> FALSE, limit |-> 4]

Match(date, conn, h, mn, sep, title) ==
    [date |-> date, conn |-> conn, h |-> h, mn |-> mn, sep |-> sep,
     title |-> title, before |-> <<>>, after |-> <<>>]

D_12_10_2025 == NumDate(<<1, 2>>, <<1, 0>>, <<2, 0, 2, 5>>, "/")

\* the event lines the home page may contain; text of the context window
\* that bears on none of the patterns is left out
Matches ==
    {\* "12/10/2025 : Tablao avec Ana"
     Match(D_12_10_2025, <<>>, <<>>, <<>>, W(":"),
           <<W("Tablao"), W("avec"), W("Ana")>>),
     \* "12/10/2025 20h30 - Tablao avec Ana"
     Match(D_12_10_2025, <<>>, <<2, 0>>, <<3, 0>>, W("-"),
           <<W("Tablao"), W("avec"), W("Ana")>>),
     \* "11 oct. : Concert chez Paco"
     Match(TxtDate(<<1, 1>>, "oct.", <<>>), <<>>, <<>>, <<>>, W(":"),
           <<W("Concert"), W("chez"), W("Paco")>>),
     \* "13-10 à 20h - Tablao"
     Match(NumDate(<<1, 3>>, <<1, 0>>, <<>>, "-"), <<W("à")>>, <<2, 0>>, <<>>,
           W("-"), <<W("Tablao")>>),
     \* "31/02/2025 : Tablao"
     Match(NumDate(<<3, 1>>, <<0, 2>>, <<2, 0, 2, 5>>, "/"), <<>>, <<>>, <<>>,
           W(":"), <<W("Tablao")>>),
     \* "29/2 : Tablao flamenco"
     Match(NumDate(<<2, 9>>, <<2>>, <<>>, "/"), <<>>, <<>>, <<>>, W(":"),
           <<W("Tablao"), W("flamenco")>>)}

Page(dates, times) == [ok |-> TRUE, dates |-> dates, times |-> times]
FailedPage == [ok |-> FALSE, dates |-> <<>>, times |-> <<>>]

\* what the fetch of a detail page may bring back
PageContents ==
    {\* "12/10/2025 ... 20h30"
     Page(<<D_12_10_2025>>, <<T(<<2, 0>>, <<3, 0>>)>>),
     \* "13/10/2025 ... 12/10 ... 21h ... 20h30"
     Page(<<NumDate(<<1, 3>>, <<1, 0>>, <<2, 0, 2, 5>>, "/"),
            NumDate(<<1, 2>>, <<1, 0>>, <<>>, "/")>>,
          <<T(<<2, 1>>, <<>>), T(<<2, 0>>, <<3, 0>>)>>),
     \* "ouverture des portes 19h"
     Page(<<>>, <<T(<<1, 9>>, <<>>)>>),
     \* "20 personnes ... 29/02/2024": a date, no time
     Page(<<TxtDate(<<2, 0>>, "personnes", <<>>),
            NumDate(<<2, 9>>, <<0, 2>>, <<2, 0, 2, 4>>, "/")>>, <<>>),
     \* timeout, network error or non-2xx status
     FailedPage}

StageMatch(date, h, mn, title) ==
    [date |-> date, h |-> h, mn |-> mn, title |-> title]

\* the stage lines the two source pages may contain
StageTexts ==
    LET a == StageMatch(D_12_10_2025, <<1, 4>>, <<>>, <<W("sevillanes")>>)
        b == StageMatch(TxtDate(<<1, 1>>, "oct.", <<>>), <<1, 0>>, <<3, 0>>,
                        <<W("buleria")>>)
    IN  {<<>>, <<a>>, <<a, a>>, <<a, b>>, <<b, a, b>>}

Digits2 == {<<0, 1>>, <<0, 2>>, <<1, 2>>, <<2, 9>>, <<3, 1>>, <<0, 0>>}
YearTexts == {<<>>, <<2, 5>>, <<2, 0, 2, 5>>, <<2, 0, 2, 4>>, <<0, 0, 9, 9>>,
              <<0, 1, 2, 3>>, <<1, 9, 9, 9>>}

\* the strings given to the date helpers
DateInputs ==
    {NumDate(d, m, y, sep) : d \in Digits2 \cup {<<7>>},
                             m \in {<<0, 2>>, <<1, 0>>, <<1, 3>>, <<9>>},
                             y \in YearTexts, sep \in {"/", "-"}}
    \cup {TxtDate(d, mon, y) : d \in {<<7>>, <<1, 2>>},
                               mon \in {"oct.", "août", "personnes"},
                               y \in {<<>>, <<2, 0, 2, 5>>}}

(***************************************************************************)
(* State machine of one request                                            *)
(***************************************************************************)
DateIdle ==
    /\ dinput = NoDate
    /\ dparsed = NoMatch
    /\ dout = NoDate
    /\ dpc = "idle"

Init ==
    /\ pc = "start"
    /\ endpoint \in {"tablao", "stage"}
    /\ today \in Todays
    /\ \E r \in (IF endpoint = "tablao" THEN Requests ELSE {DefaultRequest}) :
          /\ all_dates = r.all_dates
          /\ only = r.only
          /\ deep = r.deep
          /\ deep_limit = r.limit
    /\ links = <<>>
    /\ processed = <<>>
    /\ items = <<>>
    /\ seen = {}
    /\ next_items = <<>>
    /\ entry = <<>>
    /\ candidate_links = <<>>
    /\ visited = <<>>
    /\ detail_pairs = <<>>
    /\ rule = <<>>
    /\ fail = "none"
    /\ resp = NoResponse
    /\ DateIdle

dateVars == <<dinput, dparsed, dout, dpc>>
reqVars == <<endpoint, today, all_dates, only, deep, deep_limit>>
enrichVars == <<entry, candidate_links, visited, detail_pairs, rule>>

\* line 436 raises: the except clause answers
TablaoFetchFail ==
    /\ pc = "start"
    /\ endpoint = "tablao"
    /\ \E e \in Exceptions :
          /\ fail' = e
          /\ resp' = ErrorResponse(endpoint, e)
    /\ pc' = "done"
    /\ UNCHANGED <<reqVars, links, processed, items, seen, next_items,
                   enrichVars, dateVars>>

\* lines 436-437: the home page is fetched; it holds n distinct detail links
TablaoFetchOk ==
    /\ pc = "start"
    /\ endpoint = "tablao"
    /\ \E n \in 0..MaxLinks : links' = [i \in 1..n |-> i]
    /\ pc' = "parse"
    /\ UNCHANGED <<reqVars, processed, items, seen, next_items, enrichVars,
                   fail, resp, dateVars>>

\* lines 263-295: one turn of the loop of parse_evenements_robuste
ParseEvent ==
    /\ pc = "parse"
    /\ Len(processed) < MaxMatches
    /\ \E m \in Matches :
          LET r == DedupStep(items, seen, MakeEvent(m))
          IN  /\ processed' = Append(processed, m)
              /\ items' = r.out
              /\ seen' = r.seen
    /\ UNCHANGED <<pc, reqVars, links, next_items, enrichVars, fail, resp,
                   dateVars>>

\* lines 443-460: the matches are exhausted; filter on only, filter on the
\* date, sort
FilterSort ==
    /\ pc = "parse"
    /\ items' = OnlyFilter(items, only)
    /\ next_items' = SortByDate(DateFilter(items', all_dates, today))
    /\ pc' = "sorted"
    /\ UNCHANGED <<reqVars, links, processed, seen, enrichVars, fail, resp,
                   dateVars>>

\* line 463: no enrichment
SkipEnrich ==
    /\ pc = "sorted"
    /\ ~(deep /\ next_items # <<>>)
    /\ pc' = "enriched"
    /\ UNCHANGED <<reqVars, links, processed, items, seen, next_items,
                   enrichVars, fail, resp, dateVars>>

\* lines 464, 332-338: enrichment is called and returns at once
EnrichReturnEarly ==
    /\ pc = "sorted"
    /\ deep /\ next_items # <<>>
    /\ entry' = next_items
    /\ \/ Needs(next_items) = <<>> /\ candidate_links' = <<>>
       \/ /\ Needs(next_items) # <<>>
          /\ candidate_links' = CandidateLinks(links, deep_limit)
          /\ candidate_links' = <<>>
    /\ rule' = [i \in 1..Len(next_items) |-> "skip"]
    /\ pc' = "enriched"
    /\ UNCHANGED <<reqVars, links, processed, items, seen, next_items,
                   visited, detail_pairs, fail, resp, dateVars>>

\* lines 464, 332-340: enrichment is called and starts fetching
EnrichBegin ==
    /\ pc = "sorted"
    /\ deep /\ next_items # <<>>
    /\ Needs(next_items) # <<>>
    /\ CandidateLinks(links, deep_limit) # <<>>
    /\ entry' = next_items
    /\ candidate_links' = CandidateLinks(links, deep_limit)
    /\ pc' = "fetch"
    /\ UNCHANGED <<reqVars, links, processed, items, seen, next_items,
                   visited, detail_pairs, rule, fail, resp, dateVars>>

\* lines 341-360: one turn of the loop over candidate_links
FetchDetail ==
    /\ pc = "fetch"
    /\ Len(visited) < Len(candidate_links)
    /\ \E page \in PageContents :
          /\ visited' = Append(visited,
                 [url |-> candidate_links[Len(visited) + 1], page |-> page])
          /\ detail_pairs' = AfterFetch(detail_pairs, page)
    /\ UNCHANGED <<pc, reqVars, links, processed, items, seen, next_items,
                   entry, candidate_links, rule, fail, resp, dateVars>>

\* lines 362-378: the loop over the events, and the return
AssignHours ==
    /\ pc = "fetch"
    /\ Len(visited) = Len(candidate_links)
    /\ next_items' = EnrichAll(next_items, detail_pairs)
    /\ rule' = [i \in 1..Len(next_items) |->
                   EnrichOne(next_items[i], detail_pairs).rule]
    /\ pc' = "enriched"
    /\ UNCHANGED <<reqVars, links, processed, items, seen, entry,
                   candidate_links, visited, detail_pairs, fail, resp,
                   dateVars>>

\* lines 466-486
Respond ==
    /\ pc = "enriched"
    /\ resp' = TablaoResponse(next_items)
    /\ pc' = "done"
    /\ UNCHANGED <<reqVars, links, processed, items, seen, next_items,
                   enrichVars, fail, dateVars>>

\* lines 494-495 raise: one of the two page fetches fails
StageFetchFail ==
    /\ pc = "start"
    /\ endpoint = "stage"
    /\ \E e \in Exceptions :
          /\ fail' = e
          /\ resp' = ErrorResponse(endpoint, e)
    /\ pc' = "done"
    /\ UNCHANGED <<reqVars, links, processed, items, seen, next_items,
                   enrichVars, dateVars>>

\* lines 494-512: both pages are fetched, the stages parsed and returned
StageRespond ==
    /\ pc = "start"
    /\ endpoint = "stage"
    /\ \E ms \in StageTexts : resp' = StageResponse(ParseStages(ms))
    /\ pc' = "done"
    /\ UNCHANGED <<reqVars, links, processed, items, seen, next_items,
                   enrichVars, fail, dateVars>>

Next ==
    \/ TablaoFetchFail
    \/ TablaoFetchOk
    \/ ParseEvent
    \/ FilterSort
    \/ SkipEnrich
    \/ EnrichReturnEarly
    \/ EnrichBegin
    \/ FetchDetail
    \/ AssignHours
    \/ Respond
    \/ StageFetchFail
    \/ StageRespond

Spec == Init /\ [][Next]_vars

(***************************************************************************)
(* The date helpers on their own                                           *)
(***************************************************************************)
InitDate ==
    /\ pc = "idle"
    /\ endpoint = "none"
    /\ today \in Todays
    /\ all_dates = FALSE
    /\ only = ""
    /\ deep = FALSE
    /\ deep_limit = 4
    /\ links = <<>>
    /\ processed = <<>>
    /\ items = <<>>
    /\ seen = {}
    /\ next_items = <<>>
    /\ entry = <<>>
    /\ candidate_links = <<>>
    /\ visited = <<>>
    /\ detail_pairs = <<>>
    /\ rule = <<>>
    /\ fail = "none"
    /\ resp = NoResponse
    /\ dinput \in DateInputs
    /\ dparsed = NoMatch
    /\ dout = NoDate
    /\ dpc = "input"

pipeVars == <<pc, reqVars, links, processed, items, seen, next_items,
              enrichVars, fail, resp>>

\* ymd = _parse_date_str(raw)
DateParse ==
    /\ dpc = "input"
    /\ dparsed' = _parse_date_str(dinput)
    /\ dpc' = "parsed"
    /\ UNCHANGED <<pipeVars, dinput, dout>>

\* _fmt_ddmmyyyy(*ymd) if ymd
DateFormat ==
    /\ dpc = "parsed"
    /\ dparsed # NoMatch
    /\ dout' = _fmt_ddmmyyyy(dparsed[1], dparsed[2], dparsed[3])
    /\ dpc' = "formatted"
    /\ UNCHANGED <<pipeVars, dinput, dparsed>>

NextDate == DateParse \/ DateFormat

SpecDate == InitDate /\ [][NextDate]_vars

(***************************************************************************)
(* Properties                                                              *)
(***************************************************************************)
Range(f) == {f[i] : i \in DOMAIN f}
FirstIdx(f, x) == CHOOSE i \in DOMAIN f : f[i] = x /\ \A j \in 1..(i - 1) : f[j] # x
Candidates == [i \in 1..Len(processed) |-> MakeEvent(processed[i])]

\* C1: the list built by parse_evenements_robuste never holds two events
\* equal on the six fields (date, heure, titre, type, artiste, lieu); it
\* holds exactly the events of the matches consumed so far, each once, in
\* the order of their first occurrence.
C1_DedupFirstSeen ==
    pc = "parse" =>
        /\ \A i, j \in 1..Len(items) : i # j => items[i] # items[j]
        /\ Range(items) = Range(Candidates)
        /\ \A i, j \in 1..Len(items) :
              i < j => FirstIdx(Candidates, items[i]) < FirstIdx(Candidates, items[j])

\* a repeated candidate was dropped and two different events were kept
C1_Witness ==
    /\ pc = "parse"
    /\ Len(items) = 2
    /\ Len(processed) = 3
    /\ processed[1] = processed[3]

\* the date an event resolves to, stated on the calendar
ResolvedOf(e) ==
    LET ymd == _parse_date_str(e.date)
    IN  IF ymd = NoMatch \/ ymd[2] = 0 \/ ymd[3] = 0 THEN NoMatch
        ELSE LET y == IF ymd[1] = NoYear THEN today[1] ELSE ymd[1]
             IN  IF IsRealDate(y, ymd[2], ymd[3]) THEN <<y, ymd[2], ymd[3]>>
                 ELSE NoMatch

Before(a, b) == DateLE(a, b) /\ a # b
KeptByFilter(e) ==
    /\ ResolvedOf(e) # NoMatch
    /\ (all_dates \/ ~Before(ResolvedOf(e), today))

\* C2: after the filter and the sort of /infos-tablao the list holds exactly
\* the deduplicated events with a resolvable date that is today or later
\* (every event with a resolvable date when all_dates is set), in ascending
\* order of resolved date, events of equal date in their prior order; the
\* response lists them in that order.
C2_FilterSort ==
    /\ pc = "sorted" =>
          /\ \A i \in 1..Len(items) :
                KeptByFilter(items[i]) <=>
                    \E j \in 1..Len(next_items) : StripPydate(next_items[j]) = items[i]
          /\ Len(next_items) = Cardinality({i \in 1..Len(items) : KeptByFilter(items[i])})
          /\ \A j \in 1..Len(next_items) :
                next_items[j].pydate = ResolvedOf(StripPydate(next_items[j]))
          /\ \A j, k \in 1..Len(next_items) :
                j < k =>
                  /\ DateLE(next_items[j].pydate, next_items[k].pydate)
                  /\ next_items[j].pydate = next_items[k].pydate =>
                        FirstIdx(items, StripPydate(next_items[j]))
                            < FirstIdx(items, StripPydate(next_items[k]))
    /\ (pc = "done" /\ resp.status = 200 /\ endpoint = "tablao") =>
          /\ Len(resp.evenements) = Len(next_items)
          /\ \A j, k \in 1..Len(resp.evenements) :
                j < k => DateLE(ResolvedOf(resp.evenements[j]),
                                ResolvedOf(resp.evenements[k]))
          /\ \A j \in 1..Len(resp.evenements) :
                all_dates \/ ~Before(ResolvedOf(resp.evenements[j]), today)

\* without all_dates: an event dated today is kept, one dated the day before
\* is dropped, and two events of the same date are kept
C2_Witness ==
    /\ pc = "sorted"
    /\ ~all_dates
    /\ \E i \in 1..Len(items) : ResolvedOf(items[i]) = today
    /\ \E i \in 1..Len(items) :
          ResolvedOf(items[i]) # NoMatch /\ Before(ResolvedOf(items[i]), today)
    /\ \E j, k \in 1..Len(next_items) :
          j < k /\ next_items[j].pydate = next_items[k].pydate

\* enrichment ran to its second loop
EnrichRan == pc \in {"enriched", "done"} /\ visited # <<>>
Eligible(t) == t.type = "tablao" /\ t.heure = NoTime

\* C3: enrich_tablao_hours_from_details leaves the length and the order of
\* the list, and every field of every event, as they were on entry, except
\* the heure of the events that entered with type tablao and an empty heure.
C3_EnrichFrame ==
    (pc \in {"fetch", "enriched", "done"} /\ entry # <<>>) =>
        /\ Len(next_items) = Len(entry)
        /\ \A i \in 1..Len(entry) :
              /\ [next_items[i] EXCEPT !.heure = NoTime]
                    = [entry[i] EXCEPT !.heure = NoTime]
              /\ ~Eligible(entry[i]) => next_items[i].heure = entry[i].heure

\* an empty heure was filled while an event of another type with an empty
\* heure and an event with a heure went through
C3_Witness ==
    /\ EnrichRan
    /\ \E i \in 1..Len(entry) : next_items[i].heure # entry[i].heure
    /\ \E i \in 1..Len(entry) : entry[i].type # "tablao" /\ entry[i].heure = NoTime
    /\ \E i \in 1..Len(entry) : entry[i].heure # NoTime

\* same day and month, years equal or missing on either side, read off the
\* two date strings
SameDayText(a, b) ==
    /\ DigitsToInt(a.d) = DigitsToInt(b.d)
    /\ DigitsToInt(a.m) = DigitsToInt(b.m)
    /\ (a.y = <<>> \/ b.y = <<>> \/ DigitsToInt(a.y) = DigitsToInt(b.y))

\* the fetched pages that give a time and a date on the day of event t
DateHits(t) ==
    {k \in 1..Len(visited) :
        /\ visited[k].page.ok
        /\ TimesFound(visited[k].page) # <<>>
        /\ \E n \in 1..Len(DatesFound(visited[k].page)) :
              SameDayText(t.date, DatesFound(visited[k].page)[n])}

FirstOf(S) == CHOOSE k \in S : \A j \in S : k <= j

\* C4 as stated: a time is assigned through the date-match rule only from a
\* page that yields exactly one distinct date, that date being the day of
\* the event.
C4_SingleDatePageOnly ==
    EnrichRan =>
        \A i \in 1..Len(entry) :
            rule[i] = "date" =>
                \E k \in DateHits(entry[i]) :
                    /\ Len(DatesFound(visited[k].page)) = 1
                    /\ next_items[i].heure = TimesFound(visited[k].page)[1]

\* C4 amended: a tablao event with empty heure is assigned a time through the
\* date-match rule exactly when some fetched page gives at least one time and
\* at least one date on the day of the event, and the time is the first time
\* of the first such page in fetch order, however many dates the page gives.
C4_DateMatch ==
    EnrichRan =>
        \A i \in 1..Len(entry) :
            /\ rule[i] = "date" <=> (Eligible(entry[i]) /\ DateHits(entry[i]) # {})
            /\ rule[i] = "date" =>
                  next_items[i].heure
                      = TimesFound(visited[FirstOf(DateHits(entry[i]))].page)[1]

\* a page giving two dates assigned its first time by date match
C4_Witness ==
    /\ EnrichRan
    /\ \E i \in 1..Len(entry) :
          /\ rule[i] = "date"
          /\ Len(DatesFound(visited[FirstOf(DateHits(entry[i]))].page)) = 2

\* the distinct times of the pages fetched with success
TimesSeen ==
    UNION {Range(TimesFound(visited[k].page)) :
              k \in {q \in 1..Len(visited) : visited[q].page.ok}}

\* C5: a tablao event with empty heure that the date-match rule leaves
\* without a time is assigned a time by fallback if and only if the times
\* found on the pages fetched with success are all one and the same time,
\* and it is assigned that time; with no time or with two or more distinct
\* times its heure stays empty.
C5_Fallback ==
    EnrichRan =>
        \A i \in 1..Len(entry) :
            (Eligible(entry[i]) /\ rule[i] # "date") =>
                /\ rule[i] = "fallback" <=> Cardinality(TimesSeen) = 1
                /\ rule[i] = "fallback" => TimesSeen = {next_items[i].heure}
                /\ rule[i] # "fallback" => next_items[i].heure = NoTime

\* one event took the single time by fallback
C5_Witness ==
    /\ EnrichRan
    /\ \E i \in 1..Len(entry) :
          /\ rule[i] = "fallback"
          /\ next_items[i].heure # NoTime
          /\ DateHits(entry[i]) = {}

RECURSIVE PairsOfOkPages(_)
\* the pairs of the pages fetched with success, in fetch order
PairsOfOkPages(vs) ==
    IF vs = <<>> THEN <<>>
    ELSE (IF vs[1].page.ok
          THEN PairsOfPage(DatesFound(vs[1].page), TimesFound(vs[1].page))
          ELSE <<>>) \o PairsOfOkPages(Tail(vs))

\* C6: a detail page whose fetch fails adds nothing to detail_pairs and
\* removes nothing from it; every candidate link is still fetched, the whole
\* list is still returned and answered with status 200, and when every fetch
\* failed each heure is as it was on entry.
C6_FetchFailure ==
    /\ pc = "fetch" => detail_pairs = PairsOfOkPages(visited)
    /\ EnrichRan =>
          /\ detail_pairs = PairsOfOkPages(visited)
          /\ Len(visited) = Len(candidate_links)
          /\ \A k \in 1..Len(visited) : visited[k].url = candidate_links[k]
          /\ Len(next_items) = Len(entry)
          /\ (\A k \in 1..Len(visited) : ~visited[k].page.ok) => next_items = entry
          /\ pc = "done" =>
                /\ resp.status = 200
                /\ Len(resp.evenements) = Len(entry)

\* a fetch failed after another page had given a time, and that time was
\* still assigned
C6_Witness ==
    /\ pc = "done"
    /\ Len(visited) = 2
    /\ visited[1].page.ok
    /\ ~visited[2].page.ok
    /\ \E i \in 1..Len(entry) : next_items[i].heure # entry[i].heure

\* C7: /infos-tablao drops an event whose date does not resolve to a real
\* calendar date (the current year standing in for a missing year) and
\* raises nothing: the events with a real date are kept as the filter
\* decides, the request is answered with status 200 and every event of the
\* answer has a date that resolves to a real calendar date.
C7_InvalidDateDropped ==
    /\ pc = "sorted" =>
          \A i \in 1..Len(items) :
              (\E j \in 1..Len(next_items) : StripPydate(next_items[j]) = items[i])
                  <=> KeptByFilter(items[i])
    /\ (pc = "done" /\ endpoint = "tablao" /\ fail = "none") =>
          /\ resp.status = 200
          /\ \A j \in 1..Len(resp.evenements) :
                ResolvedOf(resp.evenements[j]) # NoMatch

\* an event dated 31/02 or 29/02 of a common year was dropped and another
\* event of the same page was answered
C7_Witness ==
    /\ pc = "done"
    /\ resp.status = 200
    /\ endpoint = "tablao"
    /\ \E i \in 1..Len(processed) :
          LET ymd == _parse_date_str(processed[i].date)
          IN  ~IsRealDate(IF ymd[1] = NoYear THEN today[1] ELSE ymd[1],
                          ymd[2], ymd[3])
    /\ resp.evenements # <<>>

\* C8: when a primary page fetch fails the answer is an error and carries no
\* event list, and the status of the answer to a timeout differs from the
\* status of the answer to any other failure on the same route.
C8_PrimaryFailure ==
    (pc = "done" /\ fail # "none") =>
        /\ resp.keys = {"erreur"}
        /\ resp.evenements = <<>>
        /\ fail = "Timeout" =>
              \A e \in Exceptions \ {"Timeout"} :
                  resp.status # ErrorResponse(endpoint, e).status

IsDDMMYYYY(s) ==
    s.sep = "/" /\ s.mon = "" /\ Len(s.d) = 2 /\ Len(s.m) = 2 /\ Len(s.y) = 4

\* C9: for a real calendar date written DD/MM/YYYY, _fmt_ddmmyyyy of the
\* result of _parse_date_str is the string that was parsed.
C9_RoundTrip ==
    (/\ dpc = "formatted"
     /\ IsDDMMYYYY(dinput)
     /\ IsRealDate(DigitsToInt(dinput.y), DigitsToInt(dinput.m),
                   DigitsToInt(dinput.d))) => dout = dinput

\* C10: no event built by the extraction has a lieu that is a time.
C10_LieuNotTime ==
    /\ \A i \in 1..Len(items) : ~IsTimeShaped(items[i].lieu)
    /\ \A j \in 1..Len(resp.evenements) :
          endpoint = "tablao" => ~IsTimeShaped(resp.evenements[j].lieu)

\* the number of pages one enrichment call may fetch
PageBudget == IF deep_limit < 0 THEN 0 ELSE deep_limit
EligibleIn(its) == {i \in 1..Len(its) : Eligible(its[i])}

\* the fetches follow the links of the home page from the first one on, each
\* link once, never more than the budget; none is made when no tablao event
\* lacks a time, when there is no link or when the budget is 0; otherwise
\* their number depends on the links and the budget alone
FetchesBounded ==
    /\ Len(visited) <= PageBudget
    /\ Len(visited) <= Len(links)
    /\ \A k \in 1..Len(visited) : visited[k].url = links[k]
    /\ \A j, k \in 1..Len(visited) : j # k => visited[j].url # visited[k].url
    /\ (EligibleIn(entry) = {} \/ links = <<>> \/ deep_limit <= 0) => visited = <<>>
    /\ (pc \in {"enriched", "done"} /\ EligibleIn(entry) # {}) =>
          Len(visited) = (IF PageBudget < Len(links) THEN PageBudget ELSE Len(links))

\* C11 as stated: the fetches are bounded as above, and a tablao event
\* lacking a time that is not among the first limit_pages such events is not
\* considered, so that its heure stays empty.
C11_FirstEventsOnly ==
    /\ FetchesBounded
    /\ EnrichRan =>
          \A i \in EligibleIn(entry) :
              Cardinality({j \in EligibleIn(entry) : j <= i}) > PageBudget =>
                  next_items[i].heure = NoTime

\* C11 amended: the fetches are bounded as above, and once the pages are
\* fetched every tablao event lacking a time is considered, whatever
\* limit_pages is: it is given a time whenever the pages supply one for it.
C11_FetchBudget ==
    /\ FetchesBounded
    /\ EnrichRan =>
          \A i \in 1..Len(entry) :
              /\ Eligible(entry[i]) <=> rule[i] \in {"date", "fallback", "none"}
              /\ (Eligible(entry[i]) /\ (DateHits(entry[i]) # {} \/ Cardinality(TimesSeen) = 1))
                    => next_items[i].heure # NoTime

\* with two links and limit_pages = 1 one page was fetched, and two events
\* lacking a time were both given its time
C11_Witness ==
    /\ EnrichRan
    /\ Len(links) = 2
    /\ deep_limit = 1
    /\ Len(visited) = 1
    /\ Cardinality(EligibleIn(entry)) = 2
    /\ \A i \in EligibleIn(entry) : next_items[i].heure # NoTime

\* C12: no two events of the answer of /infos-tablao are equal on (date,
\* heure, titre, type, artiste, lieu), enrichment included.
C12_OutputUnique ==
    (pc = "done" /\ endpoint = "tablao" /\ resp.status = 200) =>
        \A i, j \in 1..Len(resp.evenements) :
            i # j => resp.evenements[i] # resp.evenements[j]

====
